---- MODULE Spec2Model ----
(***************************************************************************)
(* Model of the DogFeedingTracker component of src/app/page.tsx: the React *)
(* state of the component, the poll driver of its effect (one call at      *)
(* mount, one per timer tick, cleanup clearing the timer) and the async    *)
(* handler fetchFeedingData with its two suspension points (await fetch,   *)
(* await response.text()) and its classification of the fetched events.    *)
(*                                                                         *)
(* Instants are minutes since the start of day 0 in the local zone (a zone *)
(* without daylight-saving shifts): the code's arithmetic is on hours and  *)
(* on the 02:00:00.000 boundary, which minutes resolve.  A nullable value  *)
(* is a sequence: << >> is null (or an Invalid Date), << v >> is v.        *)
(***************************************************************************)
EXTENDS Integers, Sequences, FiniteSets, TLC

\* The seven useState cells; interval: the timer is set; started: calls of
\* fetchFeedingData so far; awaitingFetch / awaitingText: the calls suspended
\* at each await; orphaned: the calls that were in flight when a cleanup ran
\* (history); last: the input and locals of the handler run that ended last
\* (history).
VARIABLES breakfastFed, dinnerFed, breakfastTime, dinnerTime, lastMovement,
          loading, error, interval, started, awaitingFetch, awaitingText,
          orphaned, last

vars == << breakfastFed, dinnerFed, breakfastTime, dinnerTime, lastMovement,
           loading, error, interval, started, awaitingFetch, awaitingText,
           orphaned, last >>

status == << breakfastFed, dinnerFed, breakfastTime, dinnerTime, lastMovement >>

\* ---------------------------------------------------------------- bounds

\* invocations of fetchFeedingData a run of the poll driver starts
MaxCycles == 3
\* data lines after the header in a response of the poll-driver runs
MaxPollLines == 1
\* data lines after the header in a response of the single-cycle runs
MaxLines == 3

\* ------------------------------------------------------ program constants

ResetHour == 2
BreakfastStart == 7
BreakfastEnd == 10
DinnerStart == 16
DinnerEnd == 20

\* ------------------------------------------------------------ Date model

null == << >>

At(d, h, m) == (d * 24 + h) * 60 + m

\* Date.prototype.getHours: the local hour of day
getHours(t) == (t \div 60) % 24

\* Date.prototype.setHours(h, 0, 0, 0): same calendar day, at h:00:00.000
setHours(t, h) == t - (t % (24 * 60)) + h * 60

\* d.setDate(d.getDate() + n): same time of day, n calendar days later
setDate(t, n) == t + n * (24 * 60)

\* ----------------------------------------------------------- the CSV text

\* One line of the response: hash is line.startsWith('#'), date is what
\* new Date(line.split(',')[0]) gives (<< >> for an Invalid Date).
Line(h, d) == [hash |-> h, date |-> d]

HeaderLine == Line(FALSE, null)
CommentLine == Line(TRUE, null)
BadLine == Line(FALSE, null)

\* lines.slice(1)
slice1(lines) == IF Len(lines) = 0 THEN << >> ELSE Tail(lines)

\* lines.slice(1).filter(not comment).map(new Date).filter(valid)
ParseEvents(lines) ==
    LET data  == SelectSeq(slice1(lines), LAMBDA l : ~l.hash)
        dates == [i \in 1..Len(data) |-> data[i].date]
        valid == SelectSeq(dates, LAMBDA d : d # null)
    IN  [i \in 1..Len(valid) |-> valid[i][1]]

\* ------------------------------------------------------- classification

RECURSIVE InsertDesc(_, _)
InsertDesc(x, s) ==
    IF s = << >> THEN << x >>
    ELSE IF x >= Head(s) THEN << x >> \o s
    ELSE << Head(s) >> \o InsertDesc(x, Tail(s))

\* the opposite comparator, a.getTime() - b.getTime(): oldest first
RECURSIVE InsertAsc(_, _)
InsertAsc(x, s) ==
    IF s = << >> THEN << x >>
    ELSE IF x <= Head(s) THEN << x >> \o s
    ELSE << Head(s) >> \o InsertAsc(x, Tail(s))

RECURSIVE SortAsc(_)
SortAsc(s) == IF s = << >> THEN << >> ELSE InsertAsc(Head(s), SortAsc(Tail(s)))

\* events.sort((a, b) => b.getTime() - a.getTime()): newest first
RECURSIVE SortDesc(_)
SortDesc(s) == IF s = << >> THEN << >> ELSE InsertDesc(Head(s), SortDesc(Tail(s)))

\* resetTime with the hour test written now.getHours() <= 2
ResetTimeInclusiveHour(now) ==
    IF getHours(now) <= ResetHour
    THEN setDate(setHours(now, ResetHour), -1)
    ELSE setHours(now, ResetHour)

\* resetTime: today at 02:00, moved one day back when now is before 02:00
ResetTime(now) ==
    IF getHours(now) < ResetHour
    THEN setDate(setHours(now, ResetHour), -1)
    ELSE setHours(now, ResetHour)

\* events.filter(date => date >= resetTime)
TodayEvents(events, resetTime) == SelectSeq(events, LAMBDA d : d >= resetTime)

\* the breakfast test written hour <= 10
InBreakfastClosedEnd(d) == getHours(d) >= BreakfastStart /\ getHours(d) <= BreakfastEnd

InBreakfast(d) == getHours(d) >= BreakfastStart /\ getHours(d) < BreakfastEnd

InDinner(d) == getHours(d) >= DinnerStart /\ getHours(d) < DinnerEnd

BreakfastEvents(today) == SelectSeq(today, InBreakfast)

DinnerEvents(today) == SelectSeq(today, InDinner)

\* arr.length > 0 ? arr[arr.length - 1] : null
LastOrNull(s) == IF Len(s) > 0 THEN << s[Len(s)] >> ELSE null

\* ------------------------------------------------- the component's state

Cur == [breakfastFed |-> breakfastFed, dinnerFed |-> dinnerFed,
        breakfastTime |-> breakfastTime, dinnerTime |-> dinnerTime,
        lastMovement |-> lastMovement, loading |-> loading, error |-> error]

Commit(s) ==
    /\ breakfastFed' = s.breakfastFed
    /\ dinnerFed' = s.dinnerFed
    /\ breakfastTime' = s.breakfastTime
    /\ dinnerTime' = s.dinnerTime
    /\ lastMovement' = s.lastMovement
    /\ loading' = s.loading
    /\ error' = s.error

\* the locals of the handler run that completed last
NoLocals == [events |-> << >>, resetTime |-> null, todayEvents |-> << >>,
             breakfastEvents |-> << >>, dinnerEvents |-> << >>]

Locals(lines, now) ==
    LET parsed == ParseEvents(lines)
    IN  IF Len(parsed) = 0 THEN NoLocals
        ELSE LET events == SortDesc(parsed)
                 reset  == ResetTime(now)
                 today  == TodayEvents(events, reset)
             IN  [events |-> events, resetTime |-> << reset >>,
                  todayEvents |-> today,
                  breakfastEvents |-> BreakfastEvents(today),
                  dinnerEvents |-> DinnerEvents(today)]

\* the empty branch without its setLoading(false)
OnEmptyStillLoading(s) ==
    [s EXCEPT !.breakfastFed = FALSE, !.dinnerFed = FALSE, !.lastMovement = null]

\* the branch events.length === 0
OnEmpty(s) ==
    [s EXCEPT !.breakfastFed = FALSE, !.dinnerFed = FALSE,
              !.lastMovement = null, !.loading = FALSE]

\* the try block with setBreakfastFed(todayEvents.length > 0)
OnEventsFedFromToday(s, loc) ==
    [s EXCEPT !.lastMovement = << loc.events[1] >>,
              !.breakfastFed = Len(loc.todayEvents) > 0,
              !.dinnerFed = Len(loc.dinnerEvents) > 0,
              !.breakfastTime = LastOrNull(loc.breakfastEvents),
              !.dinnerTime = LastOrNull(loc.dinnerEvents),
              !.loading = FALSE]

\* the rest of the try block, events non-empty
OnEvents(s, loc) ==
    [s EXCEPT !.lastMovement = << loc.events[1] >>,
              !.breakfastFed = Len(loc.breakfastEvents) > 0,
              !.dinnerFed = Len(loc.dinnerEvents) > 0,
              !.breakfastTime = LastOrNull(loc.breakfastEvents),
              !.dinnerTime = LastOrNull(loc.dinnerEvents),
              !.loading = FALSE]

\* err.message of a rejected fetch or body read
TransportError == "Failed to fetch"

\* the catch block
OnCatch(s, msg) == [s EXCEPT !.error = << msg >>, !.loading = FALSE]

\* what the component renders
Display == IF loading THEN "loading" ELSE IF error # null THEN "error" ELSE "status"

\* ------------------------------------------------------------------ init

Init ==
    /\ breakfastFed = FALSE
    /\ dinnerFed = FALSE
    /\ breakfastTime = null
    /\ dinnerTime = null
    /\ lastMovement = null
    /\ loading = TRUE
    /\ error = null
    /\ interval = FALSE
    /\ started = 0
    /\ awaitingFetch = {}
    /\ awaitingText = {}
    /\ orphaned = {}
    /\ last = [ok |-> FALSE, lines |-> << >>, now |-> 0] @@ NoLocals

\* --------------------------------------------------------------- actions

\* fetchFeedingData up to its first await
StartCycle ==
    /\ started < MaxCycles
    /\ started' = started + 1
    /\ awaitingFetch' = awaitingFetch \cup {started + 1}

\* the effect body: one call, then setInterval
Mount ==
    /\ ~interval
    /\ StartCycle
    /\ interval' = TRUE
    /\ UNCHANGED << status, loading, error, awaitingText, orphaned, last >>

\* the timer fires
Tick ==
    /\ interval
    /\ StartCycle
    /\ UNCHANGED << status, loading, error, interval, awaitingText, orphaned, last >>

\* the effect cleanup: clearInterval; the cycles in flight are left running
Cleanup ==
    /\ interval
    /\ interval' = FALSE
    /\ orphaned' = orphaned \cup awaitingFetch \cup awaitingText
    /\ UNCHANGED << status, loading, error, started, awaitingFetch, awaitingText, last >>

Failed(msg) ==
    /\ Commit(OnCatch(Cur, msg))
    /\ last' = [ok |-> FALSE, lines |-> << >>, now |-> last.now] @@ NoLocals
    /\ UNCHANGED << interval, started, orphaned >>

\* fetch rejects (transport error)
FetchRejects(id) ==
    /\ id \in awaitingFetch
    /\ awaitingFetch' = awaitingFetch \ {id}
    /\ UNCHANGED awaitingText
    /\ Failed(TransportError)

\* fetch resolves with response.ok false
FetchResolvesNotOk(id) ==
    /\ id \in awaitingFetch
    /\ awaitingFetch' = awaitingFetch \ {id}
    /\ UNCHANGED awaitingText
    /\ Failed("Failed to fetch data")

\* fetch resolves with response.ok true: on to await response.text()
FetchResolvesOk(id) ==
    /\ id \in awaitingFetch
    /\ awaitingFetch' = awaitingFetch \ {id}
    /\ awaitingText' = awaitingText \cup {id}
    /\ UNCHANGED << status, loading, error, interval, started, orphaned, last >>

\* response.text() rejects
TextRejects(id) ==
    /\ id \in awaitingText
    /\ awaitingText' = awaitingText \ {id}
    /\ UNCHANGED awaitingFetch
    /\ Failed(TransportError)

\* response.text() resolves: parse, classify, set the state
TextResolves(id, lines, now) ==
    /\ id \in awaitingText
    /\ awaitingText' = awaitingText \ {id}
    /\ UNCHANGED awaitingFetch
    /\ LET loc == Locals(lines, now)
       IN  /\ Commit(IF Len(loc.events) = 0 THEN OnEmpty(Cur) ELSE OnEvents(Cur, loc))
           /\ last' = [ok |-> TRUE, lines |-> lines, now |-> now] @@ loc
    /\ UNCHANGED << interval, started, orphaned >>

\* ---------------------------------------------------------------- inputs

RECURSIVE SeqsUpTo(_, _)
SeqsUpTo(S, n) ==
    IF n = 0 THEN {<< >>}
    ELSE LET shorter == SeqsUpTo(S, n - 1)
         IN  shorter \cup {Append(s, x) : s \in {t \in shorter : Len(t) = n - 1}, x \in S}

\* responses: an empty text, or a header followed by data lines
TextsOver(S, n) == {<< >>} \cup {<< HeaderLine >> \o s : s \in SeqsUpTo(S, n)}

PollTimes == {At(1, 7, 30), At(1, 17, 10)}
PollLines == {CommentLine, BadLine} \cup {Line(FALSE, << t >>) : t \in PollTimes}
PollTexts == TextsOver(PollLines, MaxPollLines)
PollNows == {At(1, 18, 0), At(2, 3, 0)}

EventTimes == {At(0, 8, 0), At(1, 1, 59), At(1, 2, 0), At(1, 3, 0), At(1, 7, 0),
               At(1, 7, 30), At(1, 7, 45), At(1, 9, 59), At(1, 10, 0), At(1, 16, 0),
               At(1, 17, 10), At(1, 19, 59), At(1, 20, 0)}
Lines == {CommentLine, BadLine} \cup {Line(FALSE, << t >>) : t \in EventTimes}
Texts == TextsOver(Lines, MaxLines)
Nows == {At(1, 1, 30), At(1, 2, 0), At(1, 18, 0), At(2, 1, 59)}

\* -------------------------------------------------------- specifications

Cycles == 1..MaxCycles

\* the poll driver: every interleaving of mounts, ticks, cleanups and responses
Next ==
    \/ Mount
    \/ Tick
    \/ Cleanup
    \/ \E id \in Cycles : FetchRejects(id)
    \/ \E id \in Cycles : FetchResolvesNotOk(id)
    \/ \E id \in Cycles : FetchResolvesOk(id)
    \/ \E id \in Cycles : TextRejects(id)
    \/ \E id \in awaitingText, lines \in PollTexts, now \in {n \in PollNows : n >= last.now} :
          TextResolves(id, lines, now)

Spec == Init /\ [][Next]_vars

\* the first cycle alone, over every response and every clock reading
MountOnce == started = 0 /\ Mount

NextClassify ==
    \/ MountOnce
    \/ \E id \in Cycles : FetchResolvesOk(id)
    \/ \E id \in awaitingText, lines \in Texts, now \in Nows : TextResolves(id, lines, now)

SpecClassify == Init /\ [][NextClassify]_vars

\* ------------------------------------------ the claims' own vocabulary
\* (stated on sets of instants, apart from the handler's sequences)

Range(s) == {s[i] : i \in DOMAIN s}

SetMax(S) == CHOOSE x \in S : \A y \in S : y <= x

HourOfDay(t) == (t % (24 * 60)) \div 60

\* the instants of the data lines of a text that parse
EventSet(lines) ==
    {lines[i].date[1] : i \in {j \in 2..Len(lines) : ~lines[j].hash /\ lines[j].date # null}}

\* today at 02:00, or yesterday at 02:00 when now is before 02:00
FeedingDayStart(now) ==
    IF HourOfDay(now) < 2
    THEN ((now \div (24 * 60)) - 1) * (24 * 60) + 2 * 60
    ELSE (now \div (24 * 60)) * (24 * 60) + 2 * 60

FeedingDay(lines, now) == {e \in EventSet(lines) : e >= FeedingDayStart(now)}

InHours(S, from, to) == {e \in S : from <= HourOfDay(e) /\ HourOfDay(e) < to}

\* the handler run that completed last fetched and read its text
Succeeded == last.ok

\* a step in which a handler run leaves await response.text()
TextStep == awaitingText' # awaitingText /\ awaitingText' \subseteq awaitingText

\* ---------------------------------------------------------------- claims

\* C1: when a meal window is satisfied, the event stored as breakfastTime /
\* dinnerTime is the latest event of the current feeding day whose hour of
\* day lies in the window.
C1_SatisfyingEventIsLatest ==
    Succeeded =>
        LET b == InHours(FeedingDay(last.lines, last.now), 7, 10)
            d == InHours(FeedingDay(last.lines, last.now), 16, 20)
        IN  /\ (breakfastFed /\ b # {}) => breakfastTime = << SetMax(b) >>
            /\ (dinnerFed /\ d # {}) => dinnerTime = << SetMax(d) >>

\* C2: once a poll cycle completes successfully, the error state is cleared
\* and the status display is shown again.
C2_ErrorClearedBySuccess == Succeeded => (error = null /\ Display = "status")

\* C3: after a successfully completed cycle every status field equals the
\* value derived from that cycle's events and now; none keeps an earlier
\* cycle's value, also when the cycle's event set is empty.
C3_FullOverwrite ==
    Succeeded =>
        /\ breakfastFed = (Len(last.breakfastEvents) > 0)
        /\ dinnerFed = (Len(last.dinnerEvents) > 0)
        /\ breakfastTime = LastOrNull(last.breakfastEvents)
        /\ dinnerTime = LastOrNull(last.dinnerEvents)
        /\ lastMovement = (IF Len(last.events) > 0 THEN << last.events[1] >> ELSE null)

\* C4: a cycle that was in flight when the effect cleanup ran changes none
\* of the status, loading or error state when its response arrives.
C4_OrphanDiscarded ==
    [][\A id \in orphaned :
          (id \in awaitingFetch \cup awaitingText /\ id \notin awaitingFetch' \cup awaitingText')
              => UNCHANGED << status, loading, error >>]_vars

\* C5: at most one poll cycle is in flight at any time.
C5_AtMostOneInFlight == Cardinality(awaitingFetch \cup awaitingText) <= 1

\* C6: resetTime is today 02:00, or yesterday 02:00 when now's hour is
\* below 2, and the events kept for the feeding day are exactly those at or
\* after it (01:59 out, 02:00 in).
C6_FeedingDayBoundary ==
    (Succeeded /\ EventSet(last.lines) # {}) =>
        /\ last.resetTime = << FeedingDayStart(last.now) >>
        /\ Range(last.todayEvents) = FeedingDay(last.lines, last.now)
        /\ FeedingDayStart(last.now) - 1 \notin Range(last.todayEvents)
        /\ FeedingDayStart(last.now) \in EventSet(last.lines)
               => FeedingDayStart(last.now) \in Range(last.todayEvents)

C6_Witness ==
    /\ Succeeded
    /\ last.now = At(2, 1, 59)
    /\ {At(1, 1, 59), At(1, 2, 0)} \subseteq EventSet(last.lines)
    /\ last.resetTime = << At(1, 2, 0) >>
    /\ Range(last.todayEvents) = {At(1, 2, 0)}

\* C7: an event of the feeding day counts toward breakfast iff its hour is
\* in [7,10) and toward dinner iff it is in [16,20); a window is satisfied
\* iff such an event exists; no event counts toward both.
C7_HalfOpenWindows ==
    (Succeeded /\ EventSet(last.lines) # {}) =>
        LET day == FeedingDay(last.lines, last.now)
        IN  /\ Range(last.breakfastEvents) = InHours(day, 7, 10)
            /\ Range(last.dinnerEvents) = InHours(day, 16, 20)
            /\ breakfastFed = (\E e \in day : 7 <= HourOfDay(e) /\ HourOfDay(e) < 10)
            /\ dinnerFed = (\E e \in day : 16 <= HourOfDay(e) /\ HourOfDay(e) < 20)
            /\ Range(last.breakfastEvents) \cap Range(last.dinnerEvents) = {}

C7_Witness ==
    /\ Succeeded
    /\ last.now = At(1, 18, 0)
    /\ EventSet(last.lines) = {At(1, 7, 0), At(1, 10, 0), At(1, 20, 0)}
    /\ Range(last.todayEvents) = {At(1, 7, 0), At(1, 10, 0), At(1, 20, 0)}
    /\ last.breakfastEvents = << At(1, 7, 0) >>
    /\ breakfastFed
    /\ ~dinnerFed

\* C8: after a successful cycle with events, lastMovement is the latest
\* event of the whole fetched set, whatever the feeding day and the windows.
C8_LastMovementIsMax ==
    (Succeeded /\ EventSet(last.lines) # {}) =>
        lastMovement = << SetMax(EventSet(last.lines)) >>

C8_Witness ==
    /\ Succeeded
    /\ EventSet(last.lines) = {At(0, 8, 0), At(1, 3, 0)}
    /\ last.now = At(1, 18, 0)
    /\ ~breakfastFed
    /\ ~dinnerFed
    /\ lastMovement = << At(1, 3, 0) >>

\* C9: a successful cycle whose parsed event set is empty leaves both
\* windows unsatisfied and lastMovement null, ends loading, and does not
\* touch the error state.
C9_EmptySetIsNotAnError ==
    [][(TextStep /\ last'.ok /\ EventSet(last'.lines) = {}) =>
          /\ ~breakfastFed'
          /\ ~dinnerFed'
          /\ lastMovement' = null
          /\ ~loading'
          /\ error' = error]_vars

C9_Witness ==
    /\ Succeeded
    /\ Len(last.lines) = 2
    /\ EventSet(last.lines) = {}
    /\ breakfastTime # null
    /\ ~breakfastFed
    /\ ~dinnerFed
    /\ lastMovement = null
    /\ ~loading
    /\ error = null

\* C10: breakfastFed implies a breakfastTime with hour of day in [7,10);
\* dinnerFed implies a dinnerTime with hour of day in [16,20).
C10_FedHasTimeInWindow ==
    /\ breakfastFed =>
          /\ breakfastTime # null
          /\ 7 <= HourOfDay(breakfastTime[1])
          /\ HourOfDay(breakfastTime[1]) < 10
    /\ dinnerFed =>
          /\ dinnerTime # null
          /\ 16 <= HourOfDay(dinnerTime[1])
          /\ HourOfDay(dinnerTime[1]) < 20

C10_Witness ==
    /\ dinnerFed
    /\ dinnerTime = << At(1, 17, 10) >>
    /\ ~breakfastFed
    /\ error # null

====
